---------------------------- MODULE Spec2Model ----------------------------
(***************************************************************************)
(* A model of stem/version.py: the Version class (parsing, comparison,     *)
(* requirement checks), the VersionRequirements rule builder and the       *)
(* memoising get_system_tor_version resolver.                              *)
(*                                                                         *)
(* Python strings are sequences of one-character strings, so that slicing, *)
(* find, startswith/endswith and the regular expression of the constructor *)
(* are computed character by character.  Python values that may be None    *)
(* are records tagged by a py field.                                       *)
(***************************************************************************)
EXTENDS Integers, Sequences, FiniteSets, TLC

VARIABLES
  VERSION_CACHE,   \* the module-level dict: target -> Version, None = no key
  calls,           \* invocations of stem.util.system.call, per target
  last,            \* the last completed sequential get_system_tor_version call
  threads,         \* concurrent callers: each thread's frame in the function
  version_str,     \* the string handed to the Version constructor
  self,            \* the Version under test (None before construction)
  other,           \* the second operand of a comparison / the requirement
  rules,           \* VersionRequirements.rules of the requirement set under test
  op,              \* the last operation applied and its arguments
  ret,             \* what that operation returned or raised
  Requirement      \* the module-level enumeration: feature -> requirement

vars == <<VERSION_CACHE, calls, last, threads, version_str, self, other, rules, op, ret,
          Requirement>>

resolverVars == <<VERSION_CACHE, calls, last, threads>>
objectVars == <<version_str, self, other, rules, op, ret>>

-----------------------------------------------------------------------------
(* Bounds of the model.                                                    *)

MaxCalls == 3      \* calls of get_system_tor_version in one behaviour
MaxLines == 2      \* lines the external command prints
MaxLen == 5        \* length of the exhaustively enumerated constructor inputs
MaxNum == 1        \* largest version component of the comparison inputs
MaxRules == 2      \* rules appended to one VersionRequirements
NumThreads == 2    \* concurrent callers of get_system_tor_version
MaxSeries == 4     \* largest minor and micro number of the registry candidates
MaxPatch == 40     \* largest patch level of the registry candidates

-----------------------------------------------------------------------------
(* Python values.                                                          *)

None == [py |-> "None"]
PyInt(i) == [py |-> "int", v |-> i]
PyStr(s) == [py |-> "str", v |-> s]
PyBool(b) == [py |-> "bool", v |-> b]

\* Python truthiness of None, int, str and bool values (if patch:, if status:)
Truthy(x) ==
  CASE x.py = "None" -> FALSE
    [] x.py = "int" -> x.v # 0
    [] x.py = "str" -> x.v # <<>>
    [] x.py = "bool" -> x.v
    [] OTHER -> TRUE

NL == "\n"
TAB == "\t"
Digits == {"0", "1", "2", "3", "4", "5", "6", "7", "8", "9"}
Whitespace == {" ", NL, TAB}

DigitVal(c) ==
  CASE c = "0" -> 0 [] c = "1" -> 1 [] c = "2" -> 2 [] c = "3" -> 3
    [] c = "4" -> 4 [] c = "5" -> 5 [] c = "6" -> 6 [] c = "7" -> 7
    [] c = "8" -> 8 [] c = "9" -> 9

\* int(s) for a non-empty string of decimal digits
RECURSIVE int(_)
int(s) ==
  IF Len(s) = 0 THEN 0
  ELSE 10 * int(SubSeq(s, 1, Len(s) - 1)) + DigitVal(s[Len(s)])

\* s[a:b] with Python's treatment of negative and out-of-range indices
PySlice(s, a, b) ==
  LET n == Len(s)
      norm(i) == IF i < 0 THEN (IF i + n < 0 THEN 0 ELSE i + n)
                 ELSE IF i > n THEN n ELSE i
  IN SubSeq(s, norm(a) + 1, norm(b))

\* s[a:]
PySliceFrom(s, a) == PySlice(s, a, Len(s))

\* s.find(c, start): the 0-based index of the first c at or after start, or -1
PyFind(s, c, start) ==
  LET hits == {i \in start..(Len(s) - 1) : s[i + 1] = c}
  IN IF hits = {} THEN -1 ELSE CHOOSE i \in hits : \A j \in hits : i <= j

startswith(s, p) == Len(s) >= Len(p) /\ SubSeq(s, 1, Len(p)) = p
endswith(s, p) == Len(s) >= Len(p) /\ SubSeq(s, Len(s) - Len(p) + 1, Len(s)) = p

-----------------------------------------------------------------------------
(* class Version                                                           *)

\* The first position at or after i (1-based) whose character is not in set,
\* Len(s) + 1 if there is none: where a greedy [set]* started at i stops.
RunEnd(s, i, set) ==
  LET stops == {j \in i..Len(s) : s[j] \notin set}
  IN IF stops = {} THEN Len(s) + 1 ELSE CHOOSE j \in stops : \A k \in stops : j <= k

NonSpaceRunEnd(s, i) ==
  LET stops == {j \in i..Len(s) : s[j] \in Whitespace}
  IN IF stops = {} THEN Len(s) + 1 ELSE CHOOSE j \in stops : \A k \in stops : j <= k

\* Python's $ (no MULTILINE): the end of the string, or just before a newline
\* that is the last character.
AtDollar(s, k) == k = Len(s) + 1 \/ (k = Len(s) /\ s[k] = NL)

\* The groups of a match whose three numbers end before e1, e2 and e3, whose
\* optional patch group ends before p and whose optional status group ends
\* before q (an optional group that did not take part is None).
ReGroups(s, e1, e2, e3, p, q) ==
  [py |-> "match",
   major |-> SubSeq(s, 1, e1 - 1),
   minor |-> SubSeq(s, e1 + 1, e2 - 1),
   micro |-> SubSeq(s, e2 + 1, e3 - 1),
   patch |-> IF p > e3 THEN PyStr(SubSeq(s, e3, p - 1)) ELSE None,
   status |-> IF q > p THEN PyStr(SubSeq(s, p, q - 1)) ELSE None]

\* (-\S*)?$ from position p
ReStatus(s, e1, e2, e3, p) ==
  LET End(q) == IF AtDollar(s, q) THEN ReGroups(s, e1, e2, e3, p, q) ELSE None
  IN End(IF p <= Len(s) /\ s[p] = "-" THEN NonSpaceRunEnd(s, p + 1) ELSE p)

\* (\.[0-9]+)? from position e3, then the rest
RePatch(s, e1, e2, e3) ==
  LET Rest(pe) == ReStatus(s, e1, e2, e3,
                           IF e3 <= Len(s) /\ s[e3] = "." /\ pe > e3 + 1 THEN pe ELSE e3)
  IN Rest(RunEnd(s, e3 + 1, Digits))

\* \.([0-9]+) from position e2, then the rest
ReMicro(s, e1, e2) ==
  LET Rest(e3) == IF e2 <= Len(s) /\ s[e2] = "." /\ e3 > e2 + 1
                  THEN RePatch(s, e1, e2, e3) ELSE None
  IN Rest(RunEnd(s, e2 + 1, Digits))

\* \.([0-9]+) from position e1, then the rest
ReMinor(s, e1) ==
  LET Rest(e2) == IF e1 <= Len(s) /\ s[e1] = "." /\ e2 > e1 + 1
                  THEN ReMicro(s, e1, e2) ELSE None
  IN Rest(RunEnd(s, e1 + 1, Digits))

\* re.match(r'^([0-9]+)\.([0-9]+)\.([0-9]+)(\.[0-9]+)?(-\S*)?$', version_str):
\* None, or the five groups.  The character classes are disjoint from the
\* literals that follow them, so the greedy choice at each step is the only
\* one that can lead to a match.
re_match(s) ==
  LET Rest(e1) == IF e1 > 1 THEN ReMinor(s, e1) ELSE None
  IN Rest(RunEnd(s, 1, Digits))

ValueError(s) == [py |-> "ValueError", args |-> s]

\* if patch: patch = int(patch[1:])
StripPatch(patch) == IF Truthy(patch) THEN PyInt(int(PySliceFrom(patch.v, 1))) ELSE patch

\* if status: status = status[1:]
StripStatus(status) == IF Truthy(status) THEN PyStr(PySliceFrom(status.v, 1)) ELSE status

\* the two branches of Version.__init__ on the result of re.match
VersionOfParts(s, version_parts) ==
  IF version_parts # None
  THEN [py |-> "Version",
        version_str |-> s,
        major |-> int(version_parts.major),
        minor |-> int(version_parts.minor),
        micro |-> int(version_parts.micro),
        patch |-> StripPatch(version_parts.patch),
        status |-> StripStatus(version_parts.status)]
  ELSE ValueError(s)

\* Version.__init__: the constructed object, or the ValueError it raises
Version(s) == VersionOfParts(s, re_match(s))

isVersion(x) == x.py = "Version"

\* Version.__str__ leaving the status tag out of the string
Version__str__NoStatus(v) ==
  IF v.status = None THEN v.version_str
  ELSE SubSeq(v.version_str, 1, Len(v.version_str) - Len(v.status.v) - 1)

\* Version.__str__
Version__str__(v) == v.version_str

\* self.__dict__[attr]
Attr(v, attr) ==
  CASE attr = "major" -> PyInt(v.major)
    [] attr = "minor" -> PyInt(v.minor)
    [] attr = "micro" -> PyInt(v.micro)
    [] attr = "patch" -> v.patch

\* Max0 letting an undefined patch level order below zero
Max0NoneBelow(x) == IF x.py = "None" THEN -1 ELSE IF x.v > 0 THEN x.v ELSE 0

\* max(0, x) in Python 2, where None orders below every integer
Max0(x) == IF x.py = "None" THEN 0 ELSE IF x.v > 0 THEN x.v ELSE 0

CmpAttrs == <<"major", "minor", "micro", "patch">>

\* the for loop of Version.__cmp__, from attribute number i on
RECURSIVE CmpFrom(_, _, _)
CmpFrom(a, b, i) ==
  IF i > Len(CmpAttrs) THEN 0
  ELSE LET my_version == Max0(Attr(a, CmpAttrs[i]))
           other_version == Max0(Attr(b, CmpAttrs[i]))
       IN IF my_version > other_version THEN 1
          ELSE IF my_version < other_version THEN -1
          ELSE CmpFrom(a, b, i + 1)

\* Version.__cmp__
Version__cmp__(a, b) ==
  IF ~isVersion(b) THEN 1 ELSE CmpFrom(a, b, 1)

\* Python 2 rich comparisons of an instance that defines __cmp__
PyLt(a, b) == Version__cmp__(a, b) < 0
PyLe(a, b) == Version__cmp__(a, b) <= 0
PyGt(a, b) == Version__cmp__(a, b) > 0
PyGe(a, b) == Version__cmp__(a, b) >= 0
PyEq(a, b) == Version__cmp__(a, b) = 0

\* Version.meets_requirements with another Version using > instead of >=
RECURSIVE AnyRuleFrom(_, _, _)
meets_requirements_exclusive(v, requirements) ==
  IF isVersion(requirements)
  THEN PyGt(v, requirements)
  ELSE AnyRuleFrom(v, requirements.rules, 1)

\* the rule loop returning the verdict of the first rule it sees:
\* "for rule in rules: return rule(self)"
RECURSIVE ApplyRule(_, _)
FirstRuleOnly(v, rs, i) ==
  IF i > Len(rs) THEN FALSE ELSE ApplyRule(rs[i], v)

-----------------------------------------------------------------------------
(* class VersionRequirements: a rule is one of the lambdas of lines        *)
(* 192-224 together with the versions it closes over.                      *)

Lambda(body, version, to_version) ==
  [py |-> "lambda", body |-> body, version |-> version, to_version |-> to_version]

\* rule(v)
ApplyRule(rule, v) ==
  CASE rule.body = "version <= v" -> PyLe(rule.version, v)
    [] rule.body = "version < v" -> PyLt(rule.version, v)
    [] rule.body = "version >= v" -> PyGe(rule.version, v)
    [] rule.body = "version > v" -> PyGt(rule.version, v)
    [] rule.body = "from_version <= v <= to_version" ->
         PyLe(rule.version, v) /\ PyLe(v, rule.to_version)
    [] rule.body = "from_version <= v < to_version" ->
         PyLe(rule.version, v) /\ PyLt(v, rule.to_version)
    [] rule.body = "from_version < v < to_version" ->
         PyLt(rule.version, v) /\ PyLt(v, rule.to_version)

\* the defaults of the keyword arguments of greater_than, less_than, in_range
greater_than_inclusive == TRUE
less_than_inclusive == TRUE
in_range_from_inclusive == TRUE
in_range_to_inclusive == FALSE

\* greater_than without its inclusive branch: always "lambda v: version < v"
greater_than_exclusive(rs, version, inclusive) ==
  Append(rs, Lambda("version < v", version, None))

\* in_range without its exclusive branches: always
\* "lambda v: from_version <= v <= to_version"
in_range_inclusive(rs, from_version, to_version, from_inclusive, to_inclusive) ==
  Append(rs, Lambda("from_version <= v <= to_version", from_version, to_version))

\* VersionRequirements.greater_than: self.rules afterwards
greater_than(rs, version, inclusive) ==
  IF inclusive
  THEN Append(rs, Lambda("version <= v", version, None))
  ELSE Append(rs, Lambda("version < v", version, None))

\* VersionRequirements.less_than: self.rules afterwards
less_than(rs, version, inclusive) ==
  IF inclusive
  THEN Append(rs, Lambda("version >= v", version, None))
  ELSE Append(rs, Lambda("version > v", version, None))

\* VersionRequirements.in_range: self.rules afterwards
in_range(rs, from_version, to_version, from_inclusive, to_inclusive) ==
  Append(rs,
         IF from_inclusive /\ to_inclusive
         THEN Lambda("from_version <= v <= to_version", from_version, to_version)
         ELSE IF from_inclusive
         THEN Lambda("from_version <= v < to_version", from_version, to_version)
         ELSE Lambda("from_version < v < to_version", from_version, to_version))

\* VersionRequirements.__init__: self.rules of the new object (an instance
\* of Version is true, None is not)
VersionRequirements__init__(rule) ==
  IF Truthy(rule) THEN greater_than(<<>>, rule, greater_than_inclusive) ELSE <<>>

VersionRequirements(rs) == [py |-> "VersionRequirements", rules |-> rs]

\* "for rule in requirements.rules: if rule(self): return True" and the
\* final "return False", from rule number i on
AnyRuleFrom(v, rs, i) ==
  IF i > Len(rs) THEN FALSE
  ELSE IF ApplyRule(rs[i], v) THEN TRUE
  ELSE AnyRuleFrom(v, rs, i + 1)

\* Version.meets_requirements
meets_requirements(v, requirements) ==
  IF isVersion(requirements)
  THEN PyGe(v, requirements)
  ELSE AnyRuleFrom(v, requirements.rules, 1)

-----------------------------------------------------------------------------
(* The module-level requirements: safecookie_req and the Requirement       *)
(* enumeration, as the module builds them when it is loaded.               *)

Str_0_2_2_36 == <<"0", ".", "2", ".", "2", ".", "3", "6">>
Str_0_2_3_0 == <<"0", ".", "2", ".", "3", ".", "0">>
Str_0_2_3_13 == <<"0", ".", "2", ".", "3", ".", "1", "3">>
Str_0_2_2_7 == <<"0", ".", "2", ".", "2", ".", "7">>
Str_0_2_1_1 == <<"0", ".", "2", ".", "1", ".", "1">>
Str_0_2_0_30 == <<"0", ".", "2", ".", "0", ".", "3", "0">>
Str_0_2_3_9 == <<"0", ".", "2", ".", "3", ".", "9">>

\* safecookie_req.rules after lines 228-230
safecookie_req ==
  greater_than(in_range(VersionRequirements__init__(None),
                        Version(Str_0_2_2_36), Version(Str_0_2_3_0),
                        in_range_from_inclusive, in_range_to_inclusive),
               Version(Str_0_2_3_13), greater_than_inclusive)

GETINFO_CONFIG_TEXT == Version(Str_0_2_2_7)

\* Requirement = stem.util.enum.Enum(...)
RequirementEnum ==
  [AUTH_SAFECOOKIE |-> VersionRequirements(safecookie_req),
   GETINFO_CONFIG_TEXT |-> GETINFO_CONFIG_TEXT,
   LOADCONF |-> Version(Str_0_2_1_1),
   TORRC_CONTROL_SOCKET |-> Version(Str_0_2_0_30),
   TORRC_DISABLE_DEBUGGER_ATTACHMENT |-> Version(Str_0_2_3_9)]

\* the module has been loaded
ModuleLoaded == Requirement = RequirementEnum

-----------------------------------------------------------------------------
(* Version strings for the inputs.                                         *)

DigitChar == <<"0", "1", "2", "3", "4", "5", "6", "7", "8", "9">>

\* the decimal digits of i >= 0
RECURSIVE NumStr(_)
NumStr(i) ==
  IF i < 10 THEN <<DigitChar[i + 1]>>
  ELSE NumStr(i \div 10) \o <<DigitChar[(i % 10) + 1]>>

\* major.minor.micro[.patch][-status] from digit strings; patch and status
\* are None or a PyStr
Join(major, minor, micro, patch, status) ==
  major \o <<".">> \o minor \o <<".">> \o micro
    \o (IF patch = None THEN <<>> ELSE <<".">> \o patch.v)
    \o (IF status = None THEN <<>> ELSE <<"-">> \o status.v)

\* the version string of numbers; patch is None or a PyInt
VersionStr(major, minor, micro, patch, status) ==
  Join(NumStr(major), NumStr(minor), NumStr(micro),
       IF patch = None THEN None ELSE PyStr(NumStr(patch.v)), status)

Call(name) == [py |-> "call", name |-> name]

-----------------------------------------------------------------------------
(* get_system_tor_version and its collaborator stem.util.system.call       *)

Targets == {"tor", "/usr/bin/tor"}

\* "Tor version ", the twelve characters last_line must start with
TorVersionPrefix == <<"T", "o", "r", " ", "v", "e", "r", "s", "i", "o", "n", " ">>

Tok_0_2_1_30 == <<"0", ".", "2", ".", "1", ".", "3", "0">>
Tok_0_2_2_rc == <<"0", ".", "2", ".", "2", "-", "r", "c">>
Tok_abc == <<"a", "b", "c">>
TrailingText == <<" ", "T", "h", "i", "s", " ", "i", "s", " ", "e", "x", "p", ".", ".", ".">>
GitText == <<" ", "(", "g", "i", "t", "-", "7", "d", ")">>

\* "Tor version <token>."
PlainLine(tok) == TorVersionPrefix \o tok \o <<".">>
\* "Tor version <token>. This is exp..."
TrailingLine(tok) == TorVersionPrefix \o tok \o <<".">> \o TrailingText
\* "Tor version <token> (git-7d)."
GitLine(tok) == TorVersionPrefix \o tok \o GitText \o <<".">>
\* "Tor version <token>": no final period
NoPeriodLine(tok) == TorVersionPrefix \o tok
\* "[notice] Tor v<token>.": the log line tor prints first
NoticeLine(tok) == <<"[", "n", "o", "t", "i", "c", "e", "]", " ", "T", "o", "r", " ", "v">> \o tok \o <<".">>

ValidTokens == {Tok_0_2_1_30, Tok_0_2_2_rc}

\* the lines the command may print last
LastLines ==
  {PlainLine(t) : t \in ValidTokens \cup {Tok_abc, <<>>}}
    \cup {TrailingLine(t) : t \in ValidTokens}
    \cup {GitLine(Tok_0_2_1_30), NoPeriodLine(Tok_0_2_1_30), NoticeLine(Tok_0_2_1_30)}

\* the lines it may print before the last one
EarlierLines == {NoticeLine(Tok_0_2_1_30), PlainLine(Tok_0_2_2_rc)}

RECURSIVE OutputsOfLen(_)
OutputsOfLen(n) ==
  IF n = 0 THEN {<<>>}
  ELSE IF n = 1 THEN {<<l>> : l \in LastLines}
  ELSE {<<e>> \o o : e \in EarlierLines, o \in OutputsOfLen(n - 1)}

\* what stem.util.system.call may do: raise OSError, or return the output lines
OSError == [py |-> "OSError"]
CallResults ==
  {OSError} \cup {[py |-> "list", v |-> o] : o \in UNION {OutputsOfLen(n) : n \in 0..MaxLines}}

IOError(arg) == [py |-> "IOError", args |-> arg]
UnexpectedResponse(tor_cmd, last_line) ==
  [py |-> "msg", text |-> "Unexpected response from", cmd |-> tor_cmd, line |-> last_line]
NoOutput(tor_cmd) ==
  [py |-> "msg", text |-> "didn't have any output", cmd |-> tor_cmd, line |-> <<>>]

\* ExtractVersionStr cutting at the end of the line instead: last_line[12:]
ExtractToLineEnd(last_line) == PySliceFrom(last_line, 12)

\* version_str = last_line[12:last_line.find(' ', 12)]
ExtractVersionStr(last_line) == PySlice(last_line, 12, PyFind(last_line, " ", 12))

\* VersionOrIOError without the except clause: the ValueError escapes
VersionOrValueError(v) == v

\* try: VERSION_CACHE[tor_cmd] = Version(version_str)
\* except ValueError, exc: raise IOError(exc)
VersionOrIOError(v) == IF isVersion(v) THEN v ELSE IOError(v)

\* The checks of last_line and the parse of its token
ParseLastLine(tor_cmd, last_line) ==
  IF startswith(last_line, TorVersionPrefix) /\ endswith(last_line, <<".">>)
  THEN VersionOrIOError(Version(ExtractVersionStr(last_line)))
  ELSE IOError(UnexpectedResponse(tor_cmd, last_line))

\* The body of the "if not tor_cmd in VERSION_CACHE" block, given what
\* stem.util.system.call did: the Version to store, or the IOError raised.
QueryVersion(tor_cmd, version_output) ==
  IF version_output = OSError THEN IOError(OSError)
  ELSE IF version_output.v # <<>>
  THEN ParseLastLine(tor_cmd, version_output.v[Len(version_output.v)])
  ELSE IOError(NoOutput(tor_cmd))

\* tor_cmd in VERSION_CACHE
InCache(cache, tor_cmd) == cache[tor_cmd] # None

\* VERSION_CACHE[tor_cmd] = r
CacheStore(cache, tor_cmd, r) == [cache EXCEPT ![tor_cmd] = r]

\* return VERSION_CACHE[tor_cmd]
CacheRead(cache, tor_cmd) == cache[tor_cmd]

\* The outcome of a cache miss whose query gave r (a Version or an IOError)
Queried(cache, tor_cmd, r) ==
  IF isVersion(r)
  THEN [cache |-> CacheStore(cache, tor_cmd, r), invoked |-> TRUE, raised |-> None,
        ret |-> CacheRead(CacheStore(cache, tor_cmd, r), tor_cmd)]
  ELSE [cache |-> cache, invoked |-> TRUE, raised |-> r, ret |-> None]

\* Resolve without the "if not tor_cmd in VERSION_CACHE" test: always queries
ResolveUncached(cache, tor_cmd, version_output) ==
  Queried(cache, tor_cmd, QueryVersion(tor_cmd, version_output))

\* get_system_tor_version(tor_cmd) run from start to end on the dict cache,
\* stem.util.system.call doing version_output if it is invoked: the dict
\* afterwards, whether the collaborator was invoked, and the exception raised
\* or the value returned.
Resolve(cache, tor_cmd, version_output) ==
  IF ~InCache(cache, tor_cmd)
  THEN Queried(cache, tor_cmd, QueryVersion(tor_cmd, version_output))
  ELSE [cache |-> cache, invoked |-> FALSE, raised |-> None, ret |-> CacheRead(cache, tor_cmd)]

\* One whole call of get_system_tor_version(tor_cmd) by a single caller.
get_system_tor_version(tor_cmd, version_output) ==
  LET Done(r) ==
        /\ VERSION_CACHE' = r.cache
        /\ calls' = [calls EXCEPT ![tor_cmd] = IF r.invoked THEN @ + 1 ELSE @]
        /\ last' = [n |-> last.n + 1, tor_cmd |-> tor_cmd, invoked |-> r.invoked,
                    version_output |-> IF r.invoked THEN version_output ELSE None,
                    raised |-> r.raised, ret |-> r.ret]
  IN /\ last.n < MaxCalls
     /\ Done(Resolve(VERSION_CACHE, tor_cmd, version_output))
     /\ UNCHANGED <<threads, objectVars, Requirement>>

NoCall == [n |-> 0, tor_cmd |-> "", invoked |-> FALSE, version_output |-> None,
           raised |-> None, ret |-> None]

ResolverInit ==
  /\ ModuleLoaded
  /\ VERSION_CACHE = [t \in Targets |-> None]
  /\ calls = [t \in Targets |-> 0]
  /\ last = NoCall

ObjectsIdle ==
  /\ version_str = <<>>
  /\ self = None
  /\ other = None
  /\ rules = <<>>
  /\ op = None
  /\ ret = None

Init ==
  /\ ResolverInit
  /\ threads = <<>>
  /\ ObjectsIdle

Next ==
  \E tor_cmd \in Targets, version_output \in CallResults :
    get_system_tor_version(tor_cmd, version_output)

Spec == Init /\ [][Next]_vars

-----------------------------------------------------------------------------
(* get_system_tor_version called from several threads.  The function takes *)
(* no lock, so a thread may be preempted between any two of its            *)
(* statements: the membership test (line 56), the external call (line 59), *)
(* the parse and store (lines 63-79) and the final read (line 81).  A dict *)
(* store and a dict read are each atomic under the interpreter lock, and   *)
(* the Version is fully constructed before it is stored.                   *)

Threads == 1..NumThreads

IdleFrame == [pc |-> "idle", n |-> 0, tor_cmd |-> "", version_output |-> None,
              raised |-> None, ret |-> None]

\* what the command does in the concurrent runs: at most one line
ConcCallResults ==
  {r \in CallResults :
     \/ r = OSError
     \/ r.v = <<>>
     \/ r.v \in {<<PlainLine(t)>> : t \in ValidTokens}
     \/ r.v = <<NoPeriodLine(Tok_0_2_1_30)>>}

RECURSIVE CallsStarted(_, _)
CallsStarted(fr, th) == IF th = 0 THEN 0 ELSE fr[th].n + CallsStarted(fr, th - 1)

\* a thread calls get_system_tor_version(tor_cmd)
Enter(th, tor_cmd) ==
  /\ threads[th].pc \in {"idle", "done"}
  /\ CallsStarted(threads, NumThreads) < MaxCalls
  /\ threads' = [threads EXCEPT ![th] =
                   [IdleFrame EXCEPT !.pc = "check", !.n = threads[th].n + 1,
                                     !.tor_cmd = tor_cmd]]
  /\ UNCHANGED <<VERSION_CACHE, calls, last, objectVars, Requirement>>

\* line 56: if not tor_cmd in VERSION_CACHE
CheckCache(th) ==
  /\ threads[th].pc = "check"
  /\ threads' = [threads EXCEPT ![th].pc =
                   IF InCache(VERSION_CACHE, threads[th].tor_cmd) THEN "return" ELSE "call"]
  /\ UNCHANGED <<VERSION_CACHE, calls, last, objectVars, Requirement>>

\* lines 57-61: the external call; an OSError is raised as IOError
SystemCall(th, version_output) ==
  /\ threads[th].pc = "call"
  /\ calls' = [calls EXCEPT ![threads[th].tor_cmd] = @ + 1]
  /\ threads' = [threads EXCEPT ![th] =
                   IF version_output = OSError
                   THEN [@ EXCEPT !.pc = "done",
                                  !.raised = QueryVersion(threads[th].tor_cmd, version_output)]
                   ELSE [@ EXCEPT !.pc = "parse", !.version_output = version_output]]
  /\ UNCHANGED <<VERSION_CACHE, last, objectVars, Requirement>>

\* lines 63-79: check the output, parse the token and store the Version
ParseAndStore(th) ==
  LET Done(r) ==
        IF isVersion(r)
        THEN /\ VERSION_CACHE' = CacheStore(VERSION_CACHE, threads[th].tor_cmd, r)
             /\ threads' = [threads EXCEPT ![th].pc = "return"]
        ELSE /\ VERSION_CACHE' = VERSION_CACHE
             /\ threads' = [threads EXCEPT ![th].pc = "done", ![th].raised = r]
  IN /\ threads[th].pc = "parse"
     /\ Done(QueryVersion(threads[th].tor_cmd, threads[th].version_output))
     /\ UNCHANGED <<calls, last, objectVars, Requirement>>

\* line 81: return VERSION_CACHE[tor_cmd]
Return(th) ==
  /\ threads[th].pc = "return"
  /\ threads' = [threads EXCEPT ![th].pc = "done",
                                ![th].ret = CacheRead(VERSION_CACHE, threads[th].tor_cmd)]
  /\ UNCHANGED <<VERSION_CACHE, calls, last, objectVars, Requirement>>

ConcInit ==
  /\ ResolverInit
  /\ threads = [th \in Threads |-> IdleFrame]
  /\ ObjectsIdle

ConcNext ==
  \E th \in Threads :
    \/ \E tor_cmd \in Targets : Enter(th, tor_cmd)
    \/ CheckCache(th)
    \/ \E version_output \in ConcCallResults : SystemCall(th, version_output)
    \/ ParseAndStore(th)
    \/ Return(th)

SpecConc == ConcInit /\ [][ConcNext]_vars

-----------------------------------------------------------------------------
(* The methods of Version applied to objects.                              *)

\* Version(version_str): the object is kept in self, a ValueError in ret
Construct ==
  LET Done(v) ==
        /\ self' = (IF isVersion(v) THEN v ELSE None)
        /\ ret' = (IF isVersion(v) THEN None ELSE v)
  IN /\ op = None
     /\ Done(Version(version_str))
     /\ op' = Call("__init__")
     /\ UNCHANGED <<version_str, other, rules, resolverVars, Requirement>>

\* str(self)
Str ==
  /\ isVersion(self)
  /\ ret' = PyStr(Version__str__(self))
  /\ op' = Call("__str__")
  /\ UNCHANGED <<version_str, self, other, rules, resolverVars, Requirement>>

\* cmp(self, other)
Compare ==
  /\ isVersion(self)
  /\ ret' = PyInt(Version__cmp__(self, other))
  /\ op' = Call("__cmp__")
  /\ UNCHANGED <<version_str, self, other, rules, resolverVars, Requirement>>

\* self.meets_requirements(other), other a Version
MeetsVersion ==
  /\ isVersion(self)
  /\ isVersion(other)
  /\ ret' = PyBool(meets_requirements(self, other))
  /\ op' = Call("meets_requirements")
  /\ UNCHANGED <<version_str, self, other, rules, resolverVars, Requirement>>

ResolverIdle ==
  /\ ResolverInit
  /\ threads = <<>>

(* Constructor inputs: every string of at most MaxLen characters over a    *)
(* small alphabet, and every version string of the grammar built from a    *)
(* few numbers and status tags, with and without a character or two put    *)
(* before or after it.                                                     *)

ParseAlphabet == {"0", "1", ".", "-", "a", " ", NL}
ShortStrings == UNION {[1..n -> ParseAlphabet] : n \in 0..MaxLen}

NumStrs == {<<"0">>, <<"1", "0">>, <<"0", "7">>}
StatusStrs == {<<"a">>, <<"r", "c", "-", "1">>}
GrammarStrings ==
  {Join(ma, mi, mc, p, st) :
     ma \in NumStrs, mi \in NumStrs, mc \in NumStrs,
     p \in {None} \cup {PyStr(n) : n \in NumStrs},
     st \in {None} \cup {PyStr(x) : x \in StatusStrs}}
Before == {<<>>, <<" ">>, <<"v">>}
After == {<<>>, <<NL>>, <<" ">>, <<"-">>, <<".">>, <<".", "1">>, <<NL, NL>>, <<"-", " ">>}
ConstructorInputs ==
  ShortStrings \cup {b \o g \o e : b \in Before, g \in GrammarStrings, e \in After}

ParseInit ==
  /\ ResolverIdle
  /\ version_str \in ConstructorInputs
  /\ self = None
  /\ other = GETINFO_CONFIG_TEXT
  /\ rules = <<>>
  /\ op = None
  /\ ret = None

ParseNext == Construct \/ Str \/ Compare \/ MeetsVersion

SpecParse == ParseInit /\ [][ParseNext]_vars

(* Comparison inputs: two Versions built from all numbers up to MaxNum,    *)
(* with and without a patch level and a status tag, and the two versions   *)
(* 0.2.2.6 and 0.2.2.7.                                                    *)

Str_0_2_2_6 == <<"0", ".", "2", ".", "2", ".", "6">>
CmpStatus == {None, PyStr(<<"a", "l", "p", "h", "a">>), PyStr(<<"b", "e", "t", "a">>)}
CmpStrings ==
  {VersionStr(ma, mi, mc, p, st) :
     ma \in 0..MaxNum, mi \in 0..MaxNum, mc \in 0..MaxNum,
     p \in {None} \cup {PyInt(n) : n \in 0..MaxNum}, st \in CmpStatus}
    \cup {Str_0_2_2_6, Str_0_2_2_7}

CmpInit ==
  /\ ResolverIdle
  /\ version_str \in CmpStrings
  /\ self = Version(version_str)
  /\ other \in {Version(o) : o \in CmpStrings}
  /\ rules = <<>>
  /\ op = None
  /\ ret = None

CmpNext == Compare \/ MeetsVersion

SpecCmp == CmpInit /\ [][CmpNext]_vars

-----------------------------------------------------------------------------
(* The methods of VersionRequirements applied to one new requirement set,  *)
(* and Version.meets_requirements applied to it.  The bounds of the rules  *)
(* are the two versions of safecookie_req's range.                         *)

RuleBounds == {Version(Str_0_2_2_36), Version(Str_0_2_3_0)}

\* the versions tested against the rules: the bounds, versions between and
\* above them, and 0.2.3-rc, which has no patch level and a status tag
Candidates ==
  RuleBounds \cup
    {Version(x) : x \in {Str_0_2_3_13,
                         <<"0", ".", "2", ".", "2", ".", "4", "0">>,
                         <<"0", ".", "2", ".", "3", "-", "r", "c">>,
                         <<"0", ".", "2", ".", "3", ".", "5">>,
                         <<"0", ".", "2", ".", "4", ".", "0">>}}

\* requirements.greater_than(version, inclusive)
GreaterThan(version, inclusive) ==
  /\ Len(rules) < MaxRules
  /\ rules' = greater_than(rules, version, inclusive)
  /\ op' = [py |-> "call", name |-> "greater_than", version |-> version,
            inclusive |-> inclusive]
  /\ ret' = None
  /\ UNCHANGED <<version_str, self, other, resolverVars, Requirement>>

\* requirements.less_than(version, inclusive)
LessThan(version, inclusive) ==
  /\ Len(rules) < MaxRules
  /\ rules' = less_than(rules, version, inclusive)
  /\ op' = [py |-> "call", name |-> "less_than", version |-> version,
            inclusive |-> inclusive]
  /\ ret' = None
  /\ UNCHANGED <<version_str, self, other, resolverVars, Requirement>>

\* requirements.in_range(from_version, to_version, from_inclusive, to_inclusive)
InRange(from_version, to_version, from_inclusive, to_inclusive) ==
  /\ Len(rules) < MaxRules
  /\ rules' = in_range(rules, from_version, to_version, from_inclusive, to_inclusive)
  /\ op' = [py |-> "call", name |-> "in_range", version |-> from_version,
            to_version |-> to_version, inclusive |-> from_inclusive,
            to_inclusive |-> to_inclusive]
  /\ ret' = None
  /\ UNCHANGED <<version_str, self, other, resolverVars, Requirement>>

\* self.meets_requirements(requirements)
MeetsRequirements ==
  /\ ret' = PyBool(meets_requirements(self, VersionRequirements(rules)))
  /\ op' = Call("meets_requirements")
  /\ UNCHANGED <<version_str, self, other, rules, resolverVars, Requirement>>

\* the set is new, VersionRequirements() or VersionRequirements(rule), and
\* self is the Version to test against it
ReqInit ==
  /\ ResolverIdle
  /\ version_str = <<>>
  /\ self \in Candidates
  /\ other = None
  /\ \E rule \in {None} \cup RuleBounds :
       /\ rules = VersionRequirements__init__(rule)
       /\ op = [py |-> "call", name |-> "__init__", rule |-> rule]
  /\ ret = None

ReqNext ==
  \/ \E version \in RuleBounds, inclusive \in BOOLEAN : GreaterThan(version, inclusive)
  \/ \E version \in RuleBounds, inclusive \in BOOLEAN : LessThan(version, inclusive)
  \/ \E from_version \in RuleBounds, to_version \in RuleBounds,
        from_inclusive \in BOOLEAN, to_inclusive \in BOOLEAN :
       InRange(from_version, to_version, from_inclusive, to_inclusive)
  \/ MeetsRequirements

SpecReq == ReqInit /\ [][ReqNext]_vars

-----------------------------------------------------------------------------
(* Version.meets_requirements applied to the entries of the Requirement    *)
(* enumeration, for every version of a few release series.                 *)

RegistryStatus == {None, PyStr(<<"r", "c">>)}
RegistryCandidates ==
  {Version(VersionStr(ma, mi, mc, p, st)) :
     ma \in 0..MaxNum, mi \in 0..MaxSeries, mc \in 0..MaxSeries,
     p \in {None} \cup {PyInt(n) : n \in 0..MaxPatch}, st \in RegistryStatus}

\* self.meets_requirements(Requirement.<key>)
MeetsRequirement(key) ==
  /\ ret' = PyBool(meets_requirements(self, Requirement[key]))
  /\ op' = [py |-> "call", name |-> "meets_requirements", requirements |-> key]
  /\ UNCHANGED <<version_str, self, other, rules, resolverVars, Requirement>>

RegistryInit ==
  /\ ResolverIdle
  /\ version_str = <<>>
  /\ self \in RegistryCandidates
  /\ other = None
  /\ rules = <<>>
  /\ op = None
  /\ ret = None

RegistryNext == \E key \in DOMAIN Requirement : MeetsRequirement(key)

SpecRegistry == RegistryInit /\ [][RegistryNext]_vars

-----------------------------------------------------------------------------
(* Properties of the resolver, for a single caller (Spec).                 *)

\* the step is a completed call of get_system_tor_version
IsCall == last'.n # last.n

\* the last line of the output the last call received (<<>> if there is none)
LastLineOf(version_output) ==
  IF version_output.py = "list" /\ version_output.v # <<>>
  THEN version_output.v[Len(version_output.v)] ELSE <<>>

\* C1: once a call for target t has succeeded (t is a cache key), the entry
\* of t never changes, the collaborator is never invoked for t again, and
\* every later call for t returns that entry; and a call that succeeds leaves
\* its target in the cache with the value it returned.
C1_CachedResultIsFinal ==
  [][/\ \A t \in Targets :
          InCache(VERSION_CACHE, t) =>
            /\ VERSION_CACHE'[t] = VERSION_CACHE[t]
            /\ calls'[t] = calls[t]
            /\ (IsCall /\ last'.tor_cmd = t) =>
                 /\ ~last'.invoked
                 /\ last'.raised = None
                 /\ last'.ret = VERSION_CACHE[t]
     /\ (IsCall /\ last'.raised = None) =>
          /\ isVersion(last'.ret)
          /\ VERSION_CACHE'[last'.tor_cmd] = last'.ret]_vars

\* a second call for a target was answered from the cache after one invocation
C1_Witness ==
  /\ last.n >= 2
  /\ ~last.invoked
  /\ isVersion(last.ret)
  /\ calls[last.tor_cmd] = 1

\* C2 as stated: whenever the command was invoked and its last line is
\* "Tor version <token>." or "Tor version <token>. <text>." with a valid
\* token, the call succeeds and returns Version(<token>).
C2_TrailingTextAccepted ==
  \A tok \in ValidTokens :
    (last.invoked /\ LastLineOf(last.version_output) \in {PlainLine(tok), TrailingLine(tok)})
      => (last.raised = None /\ last.ret = Version(tok))

\* C2 amended: whenever the command was invoked and its last line is exactly
\* "Tor version <token>." with a valid token and nothing after the period, the
\* call succeeds and returns Version(<token>), whatever the earlier lines are;
\* for "Tor version 0.2.1.30." that is 0.2.1.30 with no status.
C2_PlainLineParsed ==
  /\ \A tok \in ValidTokens :
       (last.invoked /\ LastLineOf(last.version_output) = PlainLine(tok))
         => (last.raised = None /\ last.ret = Version(tok))
  /\ (last.invoked /\ LastLineOf(last.version_output) = PlainLine(Tok_0_2_1_30))
       => /\ last.ret.major = 0 /\ last.ret.minor = 2 /\ last.ret.micro = 1
          /\ last.ret.patch = PyInt(30) /\ last.ret.status = None

\* the version line was parsed with another version line printed before it
C2_Witness ==
  /\ last.invoked
  /\ last.version_output.py = "list"
  /\ last.version_output.v = <<PlainLine(Tok_0_2_2_rc), PlainLine(Tok_0_2_1_30)>>
  /\ last.ret = Version(Tok_0_2_1_30)

\* the failures C3 lists, for the output of an invoked command
ListedFailure(version_output) ==
  \/ version_output = OSError
  \/ version_output.v = <<>>
  \/ ~startswith(LastLineOf(version_output), TorVersionPrefix)
  \/ ~endswith(LastLineOf(version_output), <<".">>)
  \/ ~isVersion(Version(ExtractVersionStr(LastLineOf(version_output))))

\* C3: a call fails exactly when the command was invoked and did one of the
\* listed things; a failing call raises IOError and leaves the whole cache as
\* it was, its target still not a key; and every call for a target that is
\* not a key invokes the command (once).
C3_FailuresNotCached ==
  [][IsCall =>
       /\ (last'.raised # None) <=> (last'.invoked /\ ListedFailure(last'.version_output))
       /\ (last'.raised # None) =>
            /\ last'.raised.py = "IOError"
            /\ VERSION_CACHE' = VERSION_CACHE
            /\ ~InCache(VERSION_CACHE', last'.tor_cmd)
       /\ ~InCache(VERSION_CACHE, last'.tor_cmd) =>
            /\ last'.invoked
            /\ calls'[last'.tor_cmd] = calls[last'.tor_cmd] + 1]_vars

\* a call failed on a malformed token after an earlier call for the same
\* target had failed too, while the other target is cached
C3_Witness ==
  /\ last.raised # None
  /\ last.raised.args.py = "ValueError"
  /\ calls[last.tor_cmd] >= 2
  /\ \E t \in Targets : InCache(VERSION_CACHE, t)

-----------------------------------------------------------------------------
(* Properties of the resolver with concurrent callers (SpecConc).          *)

\* all calls that have returned a value for the same target returned the same
SameReturns ==
  \A a, b \in Threads :
    (/\ threads[a].pc = "done" /\ threads[b].pc = "done"
     /\ threads[a].tor_cmd = threads[b].tor_cmd
     /\ threads[a].ret # None /\ threads[b].ret # None)
      => threads[a].ret = threads[b].ret

\* C4: with concurrent callers the entry of a target is written at most once
\* (an entry, once there, never changes), the callers that returned for the
\* same target all returned the same Version, and every entry read is a fully
\* constructed Version.
C4_WriteOncePerKey ==
  [][/\ \A t \in Targets :
          InCache(VERSION_CACHE, t) => VERSION_CACHE'[t] = VERSION_CACHE[t]
     /\ SameReturns'
     /\ \A th \in Threads :
          threads'[th].ret # None =>
            threads'[th].ret = Version(threads'[th].ret.version_str)]_vars

-----------------------------------------------------------------------------
(* The version ordering and the grammar as the documentation states them.  *)

\* (major, minor, micro, patch), an undefined patch level counting as 0
Key(v) == <<v.major, v.minor, v.micro, IF v.patch = None THEN 0 ELSE v.patch.v>>

\* -1, 0 or 1: the lexicographic order of two 4-tuples of numbers
LexCmp(x, y) ==
  IF x = y THEN 0
  ELSE LET i == CHOOSE k \in 1..4 : x[k] # y[k] /\ \A j \in 1..(k - 1) : x[j] = y[j]
       IN IF x[i] < y[i] THEN -1 ELSE 1

Order(a, b) == LexCmp(Key(a), Key(b))

IsNumber(x) == x # <<>> /\ \A i \in 1..Len(x) : x[i] \in Digits
IsStatus(x) == x # <<>> /\ \A i \in 1..Len(x) : x[i] \notin Whitespace

\* t is [.patch][-status]
IsTail(t) ==
  \E m \in 0..Len(t) :
    /\ m = 0 \/ (t[1] = "." /\ IsNumber(SubSeq(t, 2, m)))
    /\ m = Len(t) \/ (t[m + 1] = "-" /\ IsStatus(SubSeq(t, m + 2, Len(t))))

\* the whole of s is major.minor.micro[.patch][-status], the components
\* decimal digits and the status non-empty and free of whitespace
InGrammar(s) ==
  \E i, j, k \in 1..Len(s) :
    /\ i < j /\ j < k
    /\ s[i] = "." /\ s[j] = "."
    /\ IsNumber(SubSeq(s, 1, i - 1))
    /\ IsNumber(SubSeq(s, i + 1, j - 1))
    /\ IsNumber(SubSeq(s, j + 1, k))
    /\ IsTail(SubSeq(s, k + 1, Len(s)))

-----------------------------------------------------------------------------
(* Properties of the Version constructor and of str (SpecParse).           *)

\* C7 as stated: the constructor succeeds exactly on the strings of the
\* grammar, and raises ValueError carrying the string on every other one.
C7_AcceptsExactlyTheGrammar ==
  op = Call("__init__") =>
    /\ isVersion(self) <=> InGrammar(version_str)
    /\ ~InGrammar(version_str) => ret = ValueError(version_str)

\* C8: the string of a constructed Version is the string it was constructed
\* from, character for character, after the construction and after every
\* later str, comparison and requirement check; and str returns it.
C8_StrIsTheInput ==
  /\ isVersion(self) => Version__str__(self) = version_str
  /\ op = Call("__str__") => ret = PyStr(version_str)

\* str was applied to a Version that has a status tag and no patch level
C8_Witness ==
  /\ op = Call("__str__")
  /\ isVersion(self)
  /\ self.status # None
  /\ self.patch = None
  /\ ret = PyStr(version_str)

-----------------------------------------------------------------------------
(* Properties of the comparison (SpecCmp).                                 *)

\* C6: cmp(a, b) is the lexicographic comparison of (major, minor, micro,
\* patch or 0), so the status never counts and an undefined patch level
\* equals patch level 0; cmp(a, b) = -cmp(b, a); exactly one of a < b, a == b,
\* a > b holds; and the patch field of a version written without a patch
\* level is None, not 0 (its fields written back give the input string).
C6_CmpIsLexicographic ==
  /\ Version__cmp__(self, other) = Order(self, other)
  /\ Version__cmp__(self, other) = -Version__cmp__(other, self)
  /\ Cardinality({r \in {"<", "==", ">"} :
        \/ r = "<" /\ PyLt(self, other)
        \/ r = "==" /\ PyEq(self, other)
        \/ r = ">" /\ PyGt(self, other)}) = 1
  /\ op = Call("__cmp__") => ret = PyInt(Order(self, other))
  /\ self.version_str = VersionStr(self.major, self.minor, self.micro, self.patch, self.status)
  /\ (self.patch = None /\ other.patch = PyInt(0) /\ self.major = other.major
        /\ self.minor = other.minor /\ self.micro = other.micro)
       => PyEq(self, other)

\* a version with no patch level was compared with the same version with
\* patch level 0 and another status, and they are equal
C6_Witness ==
  /\ op = Call("__cmp__")
  /\ self.patch = None
  /\ other.patch = PyInt(0)
  /\ self.status # other.status
  /\ self.status # None
  /\ other.status # None
  /\ ret = PyInt(0)

\* C10: self.meets_requirements(r) for a Version r is self >= r in the
\* version ordering: true for 0.2.2.7 against 0.2.2.7, false for 0.2.2.6
\* against 0.2.2.7, whatever the status tags and undefined patch levels.
C10_MeetsVersionIsAtLeast ==
  op = Call("meets_requirements") =>
    /\ ret = PyBool(Order(self, other) >= 0)
    /\ (self.version_str = Str_0_2_2_7 /\ other.version_str = Str_0_2_2_7) => ret = PyBool(TRUE)
    /\ (self.version_str = Str_0_2_2_6 /\ other.version_str = Str_0_2_2_7) => ret = PyBool(FALSE)

\* a version met a requirement it equals only up to status and patch level
C10_Witness ==
  /\ op = Call("meets_requirements")
  /\ ret = PyBool(TRUE)
  /\ Order(self, other) = 0
  /\ self.patch = None
  /\ other.patch = PyInt(0)
  /\ self.status # other.status

-----------------------------------------------------------------------------
(* Properties of the requirement sets (SpecReq).                           *)

Reverse(rs) == [i \in 1..Len(rs) |-> rs[Len(rs) + 1 - i]]

\* C5 as stated: the rule in_range appends matches a candidate iff the
\* candidate is above the low bound (at it, if from_inclusive) and below
\* the high bound (at it, if to_inclusive), each flag on its own.
C5_InRangeHonoursBothFlags ==
  op.name = "in_range" =>
    \A c \in Candidates :
      ApplyRule(rules[Len(rules)], c) <=>
        /\ IF op.inclusive THEN Order(op.version, c) <= 0 ELSE Order(op.version, c) < 0
        /\ IF op.to_inclusive THEN Order(c, op.to_version) <= 0 ELSE Order(c, op.to_version) < 0

\* C9: meets_requirements on a requirement set is true iff at least one of
\* its rules is true of the candidate, false for a set with no rules, and
\* the same for the rules in the opposite order.
C9_MeetsIsAnyRule ==
  op.name = "meets_requirements" =>
    /\ ret = PyBool(\E i \in 1..Len(rules) : ApplyRule(rules[i], self))
    /\ rules = <<>> => ret = PyBool(FALSE)
    /\ ret = PyBool(meets_requirements(self, VersionRequirements(Reverse(rules))))

\* the candidate met a set of two rules through the second rule only
C9_Witness ==
  /\ op.name = "meets_requirements"
  /\ Len(rules) = 2
  /\ ~ApplyRule(rules[1], self)
  /\ ApplyRule(rules[2], self)
  /\ ret = PyBool(TRUE)

\* the rule a builder call has just appended
LastRule == rules[Len(rules)]

\* the last rule matches exactly the candidates at or above (inclusive) or
\* strictly above the bound
MatchesAbove(rule, bound, inclusive) ==
  \A c \in Candidates :
    ApplyRule(rule, c) <=>
      IF inclusive THEN Order(c, bound) >= 0 ELSE Order(c, bound) > 0

MatchesBelow(rule, bound, inclusive) ==
  \A c \in Candidates :
    ApplyRule(rule, c) <=>
      IF inclusive THEN Order(c, bound) <= 0 ELSE Order(c, bound) < 0

C12_AppendedRule ==
  /\ op.name = "greater_than" =>
       Len(rules) >= 1 /\ MatchesAbove(LastRule, op.version, op.inclusive)
  /\ op.name = "less_than" =>
       Len(rules) >= 1 /\ MatchesBelow(LastRule, op.version, op.inclusive)
  /\ op.name = "__init__" =>
       IF op.rule = None THEN rules = <<>>
       ELSE Len(rules) = 1 /\ MatchesAbove(rules[1], op.rule, TRUE)

C12_AppendsOne ==
  op'.name \in {"greater_than", "less_than"} =>
    /\ Len(rules') = Len(rules) + 1
    /\ SubSeq(rules', 1, Len(rules)) = rules

\* C12: greater_than(bound, inclusive) appends exactly one rule that matches
\* iff candidate >= bound when inclusive and iff candidate > bound
\* otherwise; less_than(bound, inclusive) appends exactly one rule that
\* matches iff candidate <= bound when inclusive and iff candidate < bound
\* otherwise; neither changes the rules already in the set; and
\* VersionRequirements(bound) starts with the single inclusive greater-than
\* rule for bound.
C12_BuildersAppendTheirRule ==
  /\ []C12_AppendedRule
  /\ [][C12_AppendsOne]_vars

\* an exclusive less_than rule was appended after the inclusive rule of
\* VersionRequirements(bound), for the same bound, which only the first meets
C12_Witness ==
  /\ op.name = "less_than"
  /\ ~op.inclusive
  /\ Len(rules) = 2
  /\ rules[1] = Lambda("version <= v", op.version, None)
  /\ ApplyRule(rules[1], op.version)
  /\ ~ApplyRule(rules[2], op.version)
  /\ op.version \in Candidates

-----------------------------------------------------------------------------
(* Properties of the Requirement enumeration (SpecRegistry).               *)

\* the step asked whether self meets Requirement.AUTH_SAFECOOKIE
AskedSafecookie == op # None /\ op.requirements = "AUTH_SAFECOOKIE"

InSafecookieWindow(c) ==
  \/ Order(Version(Str_0_2_2_36), c) <= 0 /\ Order(c, Version(Str_0_2_3_0)) < 0
  \/ Order(c, Version(Str_0_2_3_13)) >= 0

InSafecookieGap(c) ==
  Order(Version(Str_0_2_3_0), c) <= 0 /\ Order(c, Version(Str_0_2_3_13)) < 0

C11_Verdict ==
  AskedSafecookie =>
    /\ ret = PyBool(InSafecookieWindow(self))
    /\ self.version_str = <<"0", ".", "2", ".", "2", ".", "4", "0">> => ret = PyBool(TRUE)
    /\ self.version_str = <<"0", ".", "2", ".", "4", ".", "0">> => ret = PyBool(TRUE)
    /\ self.version_str = Str_0_2_3_0 => ret = PyBool(FALSE)
    /\ self.version_str = <<"0", ".", "2", ".", "3", ".", "5">> => ret = PyBool(FALSE)
    /\ InSafecookieGap(self) => ret = PyBool(FALSE)

\* C11: Requirement.AUTH_SAFECOOKIE is met by a candidate iff
\* 0.2.2.36 <= candidate < 0.2.3.0 or candidate >= 0.2.3.13: 0.2.2.40 and
\* 0.2.4.0 meet it, 0.2.3.0 and every version from 0.2.3.0 up to but
\* excluding 0.2.3.13 (0.2.3.5 for one) do not; and no step changes the
\* Requirement enumeration.
C11_SafecookieWindow ==
  /\ []C11_Verdict
  /\ [][Requirement' = Requirement]_vars

\* 0.2.3.5, in the gap between the two rules, was tested and turned down
C11_Witness ==
  /\ AskedSafecookie
  /\ self.version_str = <<"0", ".", "2", ".", "3", ".", "5">>
  /\ InSafecookieGap(self)
  /\ ret = PyBool(FALSE)
  /\ Requirement = RequirementEnum

=============================================================================
